---------------------------- MODULE Spec2Model ----------------------------
(***************************************************************************)
(* Model of cellulite's Writer (src/src/lib.rs): the single key/value      *)
(* store with its Item, Cell and InnerShape records, add_item with its     *)
(* level-zero decomposition and refinement queue, and in_shape.            *)
(*                                                                         *)
(* Geometry is discretised.  The surface is a row of atoms 0..NAtoms-1.    *)
(* A point is an atom, a polygon is the set of atoms it covers, a cell of  *)
(* the grid at resolution r is the set of atoms that index to it.  The     *)
(* code never uses the grid's parent/child links, only coordinate->cell,   *)
(* cell->polygon and polygon->covering cells, and so does the model; the   *)
(* cells of odd resolutions are shifted so that, as in H3, a finer cell    *)
(* need not lie inside a single coarser cell.  A cell of the finest        *)
(* resolution spans two atoms, so shapes and queries can cut through it.   *)
(***************************************************************************)
EXTENDS Integers, Sequences, FiniteSets, TLC

VARIABLES
    db,          \* the store: key -> value, keys <<tag, n>>
    threshold,   \* Writer.threshold
    pc,          \* "idle" | "loop" (in add_item's while loop) | "failed" | "panicked"
    to_insert,   \* add_item's local VecDeque
    cur,         \* id of the add_item call in progress (0 when idle)
    args,        \* history: id -> geometry passed to add_item
    rets         \* history: id -> outcome of that add_item call

vars == <<db, threshold, pc, to_insert, cur, args, rets>>

----------------------------------------------------------------------------
(* Bounds *)

NAtoms == 14
MaxRes == 2
MaxItems == 3
MaxThreshold == 2

DefaultThreshold == 200

Atoms == 0 .. (NAtoms - 1)
ItemIds == 1 .. MaxItems
Resolutions == 0 .. MaxRes

----------------------------------------------------------------------------
(* Small helpers *)

Min(S) == CHOOSE x \in S : \A y \in S : x <= y

RECURSIVE SortedSeq(_)
SortedSeq(S) == IF S = {} THEN <<>> ELSE <<Min(S)>> \o SortedSeq(S \ {Min(S)})

RECURSIVE Pow2(_)
Pow2(n) == IF n <= 0 THEN 1 ELSE 2 * Pow2(n - 1)

Range(s) == {s[i] : i \in 1 .. Len(s)}

----------------------------------------------------------------------------
(* Geometries (geo::Geometry as obtained from the GeoJson argument) *)

Point(a) == [kind |-> "Point", at |-> a]
MultiPoint(s) == [kind |-> "MultiPoint", points |-> s]
Polygon(S) == [kind |-> "Polygon", area |-> S]
MultiPolygon(s) == [kind |-> "MultiPolygon", polys |-> s]
Other(k) == [kind |-> k]

LineKinds == {"Line", "LineString", "MultiLineString"}
TodoKinds == {"Rect", "Triangle", "GeometryCollection"}

\* LatLng::new(..) is Ok iff the coordinate is in the geodesic domain
ValidLatLng(a) == a \in Atoms
\* tiler.add(polygon) is Ok iff the tiler accepts the polygon
ValidPolygon(S) == S # {} /\ S \subseteq Atoms

----------------------------------------------------------------------------
(* The cell grid (h3o) *)

Stride == NAtoms + 1
\* a finest cell spans two atoms, so that a shape can cut through one
Width(r) == Pow2(MaxRes + 1 - r)
Shift(r) == IF r % 2 = 1 THEN Width(r) \div 2 ELSE 0

MkCell(r, i) == r * Stride + i
Resolution(c) == c \div Stride

\* LatLng::to_cell(resolution)
ToCell(a, r) == MkCell(r, (a + Shift(r)) \div Width(r))

\* SolventBuilder::dissolve(Some(cell)).0[0]
Dissolve(c) == {a \in Atoms : ToCell(a, Resolution(c)) = c}

\* TilerBuilder::new(r).containment_mode(Covers) ... into_coverage()
Coverage(S, r) == {ToCell(a, r) : a \in S}

\* Resolution::succ()
HasSucc(r) == r < MaxRes

\* mutant: no shape is ever found to contain a cell
GeoContains_Never(shape, S) == FALSE

\* mutant: overlapping the cell is taken for containing it
GeoContains_Overlaps(shape, S) == shape.kind = "Polygon" /\ S \cap shape.area # {}

\* geo: shape.contains(cell_polygon); a point never contains a polygon
GeoContains(shape, S) == shape.kind = "Polygon" /\ S \subseteq shape.area

----------------------------------------------------------------------------
(* The store *)

\* mutant: the id is truncated in the key, so distinct ids collide
ItemKey_Truncated(i) == <<"Item", i % 2>>

ItemKey(i) == <<"Item", i>>
CellKey(c) == <<"Cell", c>>
\* mutant: the inner-shape ids of a cell are filed under its Cell key
InnerKey_AsCell(c) == <<"Cell", c>>

InnerKey(c) == <<"InnerShape", c>>

Has(d, k) == k \in DOMAIN d
\* get(..).unwrap_or_default() on a bitmap
Bitmap(d, k) == IF Has(d, k) THEN d[k] ELSE {}
Put(d, k, v) == [x \in (DOMAIN d) \cup {k} |-> IF x = k THEN v ELSE d[x]]
\* mutant: the bitmap is written afresh, without the ids it held
InsertInto_Fresh(d, k, i) == Put(d, k, {i})

InsertInto(d, k, i) == Put(d, k, Bitmap(d, k) \cup {i})

RECURSIVE InsertAll(_, _, _)
InsertAll(d, cells, i) ==
    IF cells = <<>> THEN d
    ELSE InsertAll(InsertInto(d, InnerKey(Head(cells)), i), Tail(cells), i)

Entry(i, shape, c) == [item |-> i, shape |-> shape, cell |-> c]


----------------------------------------------------------------------------
(* explode_level_zero_geo: the inner-shape cells it writes, the work list  *)
(* it returns, and how it ends ("ok", "InvalidGeometry" or "panic")        *)

Exploded(w, q, o) == [writes |-> w, queue |-> q, out |-> o]

\* mutant: every covered cell is filed as an inner-shape cell
ExplodePolygon_AllInner(item, S) ==
    IF ~ValidPolygon(S) THEN Exploded(<<>>, <<>>, "InvalidGeometry")
    ELSE Exploded(SortedSeq(Coverage(S, 0)), <<>>, "ok")

\* the Geometry::Polygon arm
ExplodePolygon(item, S) ==
    IF ~ValidPolygon(S) THEN Exploded(<<>>, <<>>, "InvalidGeometry")
    ELSE LET cov == SortedSeq(Coverage(S, 0))
             inner == SelectSeq(cov, LAMBDA c : Dissolve(c) \subseteq S)
             part == SelectSeq(cov, LAMBDA c : ~(Dissolve(c) \subseteq S))
         IN  Exploded(inner,
                      [i \in 1 .. Len(part) |-> Entry(item, Polygon(S), part[i])],
                      "ok")

\* the Geometry::MultiPolygon arm: the first failing polygon ends the call,
\* what the earlier polygons wrote stays written
RECURSIVE ExplodePolygons(_, _)
ExplodePolygons(item, polys) ==
    IF polys = <<>> THEN Exploded(<<>>, <<>>, "ok")
    ELSE LET h == ExplodePolygon(item, Head(polys))
         IN  IF h.out # "ok" THEN h
             ELSE LET t == ExplodePolygons(item, Tail(polys))
                  IN  Exploded(h.writes \o t.writes, h.queue \o t.queue, t.out)

ExplodeLevelZeroGeo(item, shape) ==
    CASE shape.kind = "Point" ->
            IF ValidLatLng(shape.at)
            THEN Exploded(<<>>, <<Entry(item, shape, ToCell(shape.at, 0))>>, "ok")
            ELSE Exploded(<<>>, <<>>, "panic")
      [] shape.kind = "MultiPoint" ->
            IF \A i \in 1 .. Len(shape.points) : ValidLatLng(shape.points[i])
            THEN Exploded(<<>>,
                          [i \in 1 .. Len(shape.points) |->
                              Entry(item, Point(shape.points[i]),
                                    ToCell(shape.points[i], 0))],
                          "ok")
            ELSE Exploded(<<>>, <<>>, "panic")
      [] shape.kind = "Polygon" -> ExplodePolygon(item, shape.area)
      [] shape.kind = "MultiPolygon" -> ExplodePolygons(item, shape.polys)
      [] OTHER -> Exploded(<<>>, <<>>, "panic")

----------------------------------------------------------------------------
(* One iteration of add_item's while loop                                  *)

Pushed(q, o) == [pushed |-> q, out |-> o]

\* mutant: the entry is re-enqueued for the cell it came from
SelfEntries_SameCell(e, next_res) == Pushed(<<Entry(e.item, e.shape, e.cell)>>, "ok")

\* mutant: the entry that finds the cell full is not re-enqueued
SelfEntries_Skipped(e, next_res) == Pushed(<<>>, "ok")

\* lines 150-177: the entry re-enqueues itself one resolution finer
SelfEntries(e, next_res) ==
    CASE e.shape.kind = "Point" ->
            Pushed(<<Entry(e.item, e.shape, ToCell(e.shape.at, next_res))>>, "ok")
      [] e.shape.kind = "Polygon" ->
            IF ~ValidPolygon(e.shape.area) THEN Pushed(<<>>, "InvalidGeometry")
            ELSE LET cov == SortedSeq(Coverage(e.shape.area, next_res))
                 IN  Pushed([i \in 1 .. Len(cov) |->
                                Entry(e.item, Polygon(e.shape.area), cov[i])],
                            "ok")
      [] OTHER -> Pushed(<<>>, "panic")

\* mutant: the entries carry the clipped piece in place of the polygon
ClippedEntries_Piece(item, S, cell_polygon, next_res) ==
    LET intersection == S \cap cell_polygon
        cov == SortedSeq(Coverage(intersection, next_res))
    IN  IF intersection = {} THEN <<>>
        ELSE [i \in 1 .. Len(cov) |-> Entry(item, Polygon(intersection), cov[i])]

\* lines 212-230: one polygon of an occupant, clipped to the cell for the
\* tiling, carried whole in the entries
ClippedEntries(item, S, cell_polygon, next_res) ==
    LET intersection == S \cap cell_polygon
        cov == SortedSeq(Coverage(intersection, next_res))
    IN  IF intersection = {} THEN <<>>
        ELSE [i \in 1 .. Len(cov) |-> Entry(item, Polygon(S), cov[i])]

RECURSIVE ClippedEntriesOfAll(_, _, _, _)
ClippedEntriesOfAll(item, polys, cell_polygon, next_res) ==
    IF polys = <<>> THEN <<>>
    ELSE ClippedEntries(item, Head(polys), cell_polygon, next_res)
         \o ClippedEntriesOfAll(item, Tail(polys), cell_polygon, next_res)

\* mutant: the split forgets the existing occupants
OccupantEntries_Dropped(item, shape, cell_polygon, next_res) == Pushed(<<>>, "ok")

\* lines 188-253: what one existing occupant of the cell re-enqueues
OccupantEntries(item, shape, cell_polygon, next_res) ==
    CASE shape.kind = "Point" ->
            IF ValidLatLng(shape.at)
            THEN Pushed(<<Entry(item, shape, ToCell(shape.at, next_res))>>, "ok")
            ELSE Pushed(<<>>, "panic")
      [] shape.kind = "MultiPoint" ->
            LET inside == SelectSeq(shape.points, LAMBDA p : p \in cell_polygon)
            IN  Pushed([i \in 1 .. Len(inside) |->
                           Entry(item, Point(inside[i]), ToCell(inside[i], next_res))],
                       "ok")
      [] shape.kind = "Polygon" ->
            Pushed(ClippedEntries(item, shape.area, cell_polygon, next_res), "ok")
      [] shape.kind = "MultiPolygon" ->
            Pushed(ClippedEntriesOfAll(item, shape.polys, cell_polygon, next_res), "ok")
      [] OTHER -> Pushed(<<>>, "panic")

\* lines 181-254: the split of the existing occupants, in bitmap order
RECURSIVE SplitOccupants(_, _, _, _)
SplitOccupants(d, others, cell_polygon, next_res) ==
    IF others = <<>> THEN Pushed(<<>>, "ok")
    ELSE IF ~Has(d, ItemKey(Head(others))) THEN Pushed(<<>>, "panic")
    ELSE LET h == OccupantEntries(Head(others), d[ItemKey(Head(others))],
                                  cell_polygon, next_res)
         IN  IF h.out # "ok" THEN h
             ELSE LET t == SplitOccupants(d, Tail(others), cell_polygon, next_res)
                  IN  Pushed(h.pushed \o t.pushed, t.out)

Processed(d, q, o) == [db |-> d, pushed |-> q, out |-> o]

\* mutant: the cell is refined one id before it reaches the threshold
Process_EarlyRefine(d, e, T) ==
    LET cell_polygon == Dissolve(e.cell)
    IN  IF GeoContains(e.shape, cell_polygon)
        THEN Processed(InsertInto(d, InnerKey(e.cell), e.item), <<>>, "ok")
        ELSE
          LET old == Bitmap(d, CellKey(e.cell))
              already_splitted == Cardinality(old) >= T
              bitmap == old \cup {e.item}
              d2 == Put(d, CellKey(e.cell), bitmap)
              next_res == Resolution(e.cell) + 1
          IN  IF ~HasSucc(Resolution(e.cell)) THEN Processed(d2, <<>>, "ok")
              ELSE IF Cardinality(bitmap) < T - 1 THEN Processed(d2, <<>>, "ok")
              ELSE
                LET self == SelfEntries(e, next_res)
                    rest == IF already_splitted THEN Pushed(<<>>, "ok")
                            ELSE SplitOccupants(d2, SortedSeq(bitmap \ {e.item}),
                                                cell_polygon, next_res)
                IN  IF self.out # "ok" THEN Processed(d2, <<>>, self.out)
                    ELSE Processed(d2, self.pushed \o rest.pushed, rest.out)

\* mutant: the occupants are split again on every later insertion
Process_SplitAlways(d, e, T) ==
    LET cell_polygon == Dissolve(e.cell)
    IN  IF GeoContains(e.shape, cell_polygon)
        THEN Processed(InsertInto(d, InnerKey(e.cell), e.item), <<>>, "ok")
        ELSE
          LET old == Bitmap(d, CellKey(e.cell))
              bitmap == old \cup {e.item}
              d2 == Put(d, CellKey(e.cell), bitmap)
              next_res == Resolution(e.cell) + 1
          IN  IF ~HasSucc(Resolution(e.cell)) THEN Processed(d2, <<>>, "ok")
              ELSE IF Cardinality(bitmap) < T THEN Processed(d2, <<>>, "ok")
              ELSE
                LET self == SelfEntries(e, next_res)
                    rest == SplitOccupants(d2, SortedSeq(bitmap \ {e.item}),
                                           cell_polygon, next_res)
                IN  IF self.out # "ok" THEN Processed(d2, <<>>, self.out)
                    ELSE Processed(d2, self.pushed \o rest.pushed, rest.out)

\* lines 118-258 for the entry e popped from the queue
Process(d, e, T) ==
    LET cell_polygon == Dissolve(e.cell)
    IN  IF GeoContains(e.shape, cell_polygon)
        THEN Processed(InsertInto(d, InnerKey(e.cell), e.item), <<>>, "ok")
        ELSE
          LET old == Bitmap(d, CellKey(e.cell))
              already_splitted == Cardinality(old) >= T
              bitmap == old \cup {e.item}
              d2 == Put(d, CellKey(e.cell), bitmap)
              next_res == Resolution(e.cell) + 1
          IN  IF ~HasSucc(Resolution(e.cell)) THEN Processed(d2, <<>>, "ok")
              ELSE IF Cardinality(bitmap) < T THEN Processed(d2, <<>>, "ok")
              ELSE
                LET self == SelfEntries(e, next_res)
                    rest == IF already_splitted THEN Pushed(<<>>, "ok")
                            ELSE SplitOccupants(d2, SortedSeq(bitmap \ {e.item}),
                                                cell_polygon, next_res)
                IN  IF self.out # "ok" THEN Processed(d2, <<>>, self.out)
                    ELSE Processed(d2, self.pushed \o rest.pushed, rest.out)

\* does the iteration pass a fallible store read or tiling after its write
\* (lines 159, 186, 221, 241)
FallibleAfterWrite(d, e, T) ==
    LET old == Bitmap(d, CellKey(e.cell))
        bitmap == old \cup {e.item}
    IN  /\ ~GeoContains(e.shape, Dissolve(e.cell))
        /\ HasSucc(Resolution(e.cell))
        /\ Cardinality(bitmap) >= T
        /\ \/ e.shape.kind = "Polygon"
           \/ Cardinality(old) < T /\ bitmap # {e.item}

----------------------------------------------------------------------------
(* in_shape *)

TooLargeCells == 3

Exploring(q, seen, large, ret, dc, ev) ==
    [to_explore |-> q, already_explored |-> seen, too_large |-> large,
     ret |-> ret, double_check |-> dc, events |-> ev]

\* mutant: the flag is consulted after the count, so the dive that trips it
\* already tiles the cell
DeepDiveCells_Eager(polygon, cell, too_large) ==
    LET next_res == Resolution(cell) + 1
    IN  SortedSeq(Coverage(IF too_large \/ Cardinality(Coverage(polygon, next_res)) > 3
                           THEN Dissolve(cell) ELSE polygon,
                           next_res))

\* mutant: once the flag is set a deep dive goes no further
DeepDiveCells_Stop(polygon, cell, too_large) ==
    IF too_large THEN <<>> ELSE SortedSeq(Coverage(polygon, Resolution(cell) + 1))

\* lines 414-434: the cells a deep dive tiles, in coverage order
DeepDiveCells(polygon, cell, too_large) ==
    SortedSeq(Coverage(IF too_large THEN Dissolve(cell) ELSE polygon,
                       Resolution(cell) + 1))

\* mutant: a crowded cell is dived into whatever its resolution
Visit_NoTerminal(d, polygon, T, st) ==
    LET cell == Head(st.to_explore)
        rest == Tail(st.to_explore)
        cell_polygon == Dissolve(cell)
        items == d[CellKey(cell)]
        ev(step) == Append(st.events, <<step, cell>>)
    IN  IF ~Has(d, CellKey(cell))
        THEN [st EXCEPT !.to_explore = rest, !.events = ev("NotPresentInDB")]
        ELSE IF cell_polygon \subseteq polygon
        THEN [st EXCEPT !.to_explore = rest, !.events = ev("Returned"),
                        !.ret = st.ret \cup items]
        ELSE IF cell_polygon \cap polygon # {}
        THEN IF Cardinality(items) < T
             THEN [st EXCEPT !.to_explore = rest, !.events = ev("RequireDoubleCheck"),
                             !.double_check = st.double_check \cup items]
             ELSE LET cov == DeepDiveCells(polygon, cell, st.too_large)
                      new == SelectSeq(cov, LAMBDA c : c \notin st.already_explored)
                  IN  [st EXCEPT !.to_explore = rest \o new,
                                 !.already_explored = st.already_explored \cup Range(cov),
                                 !.too_large = st.too_large \/ Len(cov) > TooLargeCells,
                                 !.events = ev("DeepDive")]
        ELSE [st EXCEPT !.to_explore = rest, !.events = ev("OutsideOfShape")]

\* mutant: a deep dive enqueues its cells whether explored or not
Visit_Revisit(d, polygon, T, st) ==
    LET cell == Head(st.to_explore)
        rest == Tail(st.to_explore)
        cell_polygon == Dissolve(cell)
        items == d[CellKey(cell)]
        ev(step) == Append(st.events, <<step, cell>>)
    IN  IF ~Has(d, CellKey(cell))
        THEN [st EXCEPT !.to_explore = rest, !.events = ev("NotPresentInDB")]
        ELSE IF cell_polygon \subseteq polygon
        THEN [st EXCEPT !.to_explore = rest, !.events = ev("Returned"),
                        !.ret = st.ret \cup items]
        ELSE IF cell_polygon \cap polygon # {}
        THEN IF Cardinality(items) < T \/ Resolution(cell) = MaxRes
             THEN [st EXCEPT !.to_explore = rest, !.events = ev("RequireDoubleCheck"),
                             !.double_check = st.double_check \cup items]
             ELSE LET cov == DeepDiveCells(polygon, cell, st.too_large)
                  IN  [st EXCEPT !.to_explore = rest \o cov,
                                 !.already_explored = st.already_explored \cup Range(cov),
                                 !.too_large = st.too_large \/ Len(cov) > TooLargeCells,
                                 !.events = ev("DeepDive")]
        ELSE [st EXCEPT !.to_explore = rest, !.events = ev("OutsideOfShape")]

\* lines 393-440: one iteration of the traversal, on the cell popped
Visit(d, polygon, T, st) ==
    LET cell == Head(st.to_explore)
        rest == Tail(st.to_explore)
        cell_polygon == Dissolve(cell)
        items == d[CellKey(cell)]
        ev(step) == Append(st.events, <<step, cell>>)
    IN  IF ~Has(d, CellKey(cell))
        THEN [st EXCEPT !.to_explore = rest, !.events = ev("NotPresentInDB")]
        ELSE IF cell_polygon \subseteq polygon
        THEN [st EXCEPT !.to_explore = rest, !.events = ev("Returned"),
                        !.ret = st.ret \cup items]
        ELSE IF cell_polygon \cap polygon # {}
        THEN IF Cardinality(items) < T \/ Resolution(cell) = MaxRes
             THEN [st EXCEPT !.to_explore = rest, !.events = ev("RequireDoubleCheck"),
                             !.double_check = st.double_check \cup items]
             ELSE LET cov == DeepDiveCells(polygon, cell, st.too_large)
                      new == SelectSeq(cov, LAMBDA c : c \notin st.already_explored)
                  IN  [st EXCEPT !.to_explore = rest \o new,
                                 !.already_explored = st.already_explored \cup Range(cov),
                                 !.too_large = st.too_large \/ Len(cov) > TooLargeCells,
                                 !.events = ev("DeepDive")]
        ELSE [st EXCEPT !.to_explore = rest, !.events = ev("OutsideOfShape")]

RECURSIVE Explore(_, _, _, _)
Explore(d, polygon, T, st) ==
    IF st.to_explore = <<>> THEN st ELSE Explore(d, polygon, T, Visit(d, polygon, T, st))

\* lines 387-440: the states of the traversal, from the seeding to the
\* empty queue, one per iteration
RECURSIVE Steps(_, _, _, _)
Steps(d, polygon, T, st) ==
    IF st.to_explore = <<>> THEN <<st>>
    ELSE <<st>> \o Steps(d, polygon, T, Visit(d, polygon, T, st))

InShapeSteps(d, polygon, T) ==
    LET seed == SortedSeq(Coverage(polygon, 0))
    IN  Steps(d, polygon, T, Exploring(seed, Range(seed), FALSE, {}, {}, <<>>))

\* mutant: the double-check pass accepts every candidate
DoubleCheck_AcceptAll(polygon, shape) == "accept"

\* lines 447-488: the per-item test of the double-check pass
\* ("accept", "reject", or "panic" on an unsupported kind)
DoubleCheck(polygon, shape) ==
    CASE shape.kind = "Point" ->
            IF shape.at \in polygon THEN "accept" ELSE "reject"
      [] shape.kind = "MultiPoint" ->
            IF \E i \in 1 .. Len(shape.points) : shape.points[i] \in polygon
            THEN "accept" ELSE "reject"
      [] shape.kind = "Polygon" ->
            IF shape.area \subseteq polygon \/ shape.area \cap polygon # {}
            THEN "accept" ELSE "reject"
      [] shape.kind = "MultiPolygon" ->
            IF \E i \in 1 .. Len(shape.polys) :
                  shape.polys[i] \subseteq polygon \/ shape.polys[i] \cap polygon # {}
            THEN "accept" ELSE "reject"
      [] OTHER -> "panic"

Answer(o, r, ev) == [out |-> o, ret |-> r, events |-> ev]

\* in_shape, lines 376-492
InShape(d, polygon, T) ==
    IF ~ValidPolygon(polygon) THEN Answer("InvalidGeometry", {}, <<>>)
    ELSE
      LET seed == SortedSeq(Coverage(polygon, 0))
          st == Explore(d, polygon, T,
                        Exploring(seed, Range(seed), FALSE, {}, {}, <<>>))
          double_check == st.double_check \ st.ret
          verdict(i) == IF Has(d, ItemKey(i)) THEN DoubleCheck(polygon, d[ItemKey(i)])
                        ELSE "panic"
      IN  IF \E i \in double_check : verdict(i) = "panic"
          THEN Answer("panic", {}, st.events)
          ELSE Answer("ok",
                      st.ret \cup {i \in double_check : verdict(i) = "accept"},
                      st.events)

\* item, lines 88-92
Item(d, i) == IF Has(d, ItemKey(i)) THEN <<"Some", d[ItemKey(i)]>> ELSE <<"None">>

\* items, lines 95-110: the ids under the Item prefix, in key order
Items(d) == SortedSeq({k[2] : k \in {x \in DOMAIN d : x[1] = "Item"}})

\* mutant: the prefix also matches the InnerShape records
InnerDbCells_AnyCell(d) ==
    SortedSeq({k[2] : k \in {x \in DOMAIN d : x[1] \in {"Cell", "InnerShape"}}})

\* inner_db_cells, lines 50-65: the cells under the Cell prefix, in key order
InnerDbCells(d) == SortedSeq({k[2] : k \in {x \in DOMAIN d : x[1] = "Cell"}})

\* line 347: *cells_by_resolution.entry(r).or_default() += 1
Increment(m, r) ==
    [x \in (DOMAIN m) \cup {r} |-> IF x = r THEN (IF r \in DOMAIN m THEN m[r] ELSE 0) + 1
                                    ELSE m[x]]

\* lines 344-348: the loop over the cells
RECURSIVE CountCells(_, _, _)
CountCells(cells, total_cells, cells_by_resolution) ==
    IF cells = <<>>
    THEN [total_cells |-> total_cells, cells_by_resolution |-> cells_by_resolution]
    ELSE CountCells(Tail(cells), total_cells + 1,
                    Increment(cells_by_resolution, Resolution(Head(cells))))

\* stats, lines 339-355
Stats(d) ==
    LET counted == CountCells(InnerDbCells(d), 0, <<>>)
    IN  [total_cells |-> counted.total_cells,
         total_items |-> Len(Items(d)),
         cells_by_resolution |-> counted.cells_by_resolution]

----------------------------------------------------------------------------
(* Inputs *)

InvalidAtom == 0 - 1

\* points on both sides of the border of the two coarsest cells, one in the
\* last cell of resolution 1, and a bad one
Points == {Point(a) : a \in {2, 5, 6, 9, 11, InvalidAtom}}

MultiPoints ==
    { MultiPoint(<<0, NAtoms - 1>>),     \* two far-apart constituents
      MultiPoint(<<3, 4>>),              \* two constituents in one cell
      MultiPoint(<<4, InvalidAtom>>) }

Polygons ==
    { Polygon(3 .. 5),                   \* inside one coarsest cell
      Polygon(4 .. 9),                   \* across two coarsest cells
      Polygon(4 .. (NAtoms - 1)),        \* part of one, all of the next
      Polygon(7 .. (NAtoms - 1)),        \* contains a coarsest cell, cuts the other
      Polygon({}) }                      \* rejected by the tiler

MultiPolygons ==
    { MultiPolygon(<<3 .. 8, 7 .. (NAtoms - 1)>>),
      MultiPolygon(<<0 .. 3, 4 .. 7>>),
      MultiPolygon(<<8 .. (NAtoms - 1), {}>>) }

Geometries ==
    Points \cup MultiPoints \cup Polygons \cup MultiPolygons
    \cup {Other(k) : k \in LineKinds \cup TodoKinds}

Thresholds == {MaxThreshold, DefaultThreshold}

----------------------------------------------------------------------------
(* State machine *)

Init ==
    /\ db = <<>>
    /\ threshold \in Thresholds
    /\ pc = "idle"
    /\ to_insert = <<>>
    /\ cur = 0
    /\ args = <<>>
    /\ rets = <<>>

\* mutant: the Item record is not written
PutItem_Skip(d, item, geo) == d

\* mutant: the error path deletes the Item record of the failed call
Propagate_Cleanup(d, item) ==
    [k \in (DOMAIN d) \ {<<"Item", item>>} |-> d[k]]

\* line 114: self.item_db().put(wtxn, &Key::Item(item), geo)
PutItem(d, item, geo) == Put(d, ItemKey(item), geo)

\* the `?` of lines 114-241: the error goes to the caller at once, and the
\* write transaction keeps every write made so far
Propagate(d, item) == d

Record(h, i, v) == [x \in (DOMAIN h) \cup {i} |-> IF x = i THEN v ELSE h[x]]

\* where the caller stands once add_item ended with out: after Ok it may call
\* again; an Err makes it discard the write transaction; a panic unwinds
Ended(out) == CASE out = "ok" -> "idle" [] out = "panic" -> "panicked" [] OTHER -> "failed"

\* the caller passes a fresh id, counting up as the benchmark's loader does
CanCall(item) ==
    /\ pc = "idle"
    /\ item \in ItemIds
    /\ item \notin DOMAIN args
    /\ \A j \in 1 .. (item - 1) : j \in DOMAIN args

\* add_item, lines 112-118: the Item record is put, the geometry exploded
\* at level zero, and the loop entered (or left at once on an empty queue)
AddItem(item, geo) ==
    LET x == ExplodeLevelZeroGeo(item, geo)
        d == InsertAll(PutItem(db, item, geo), x.writes, item)
    IN  /\ CanCall(item)
        /\ db' = IF x.out = "InvalidGeometry" THEN Propagate(d, item) ELSE d
        /\ args' = Record(args, item, geo)
        /\ IF x.out = "ok" /\ x.queue # <<>>
           THEN /\ pc' = "loop"
                /\ to_insert' = x.queue
                /\ cur' = item
                /\ rets' = Record(rets, item, "running")
           ELSE /\ pc' = Ended(x.out)
                /\ to_insert' = <<>>
                /\ cur' = 0
                /\ rets' = Record(rets, item, IF x.out = "ok" THEN "Ok" ELSE x.out)
        /\ UNCHANGED threshold

\* mutant: the entries of an iteration go to the front of the queue
PushBack_Front(queue, pushed) == pushed \o queue

\* VecDeque::push_back, lines 150-232: what an iteration enqueues goes
\* behind the entries already waiting
PushBack(queue, pushed) == queue \o pushed

\* add_item, lines 118-260: one iteration of the loop; Ok(()) when the
\* queue is drained
Step ==
    /\ pc = "loop"
    /\ to_insert # <<>>
    /\ LET r == Process(db, Head(to_insert), threshold)
           q == PushBack(Tail(to_insert), r.pushed)
       IN  /\ db' = IF r.out = "InvalidGeometry" THEN Propagate(r.db, cur) ELSE r.db
           /\ IF r.out = "ok" /\ q # <<>>
              THEN /\ pc' = "loop"
                   /\ to_insert' = q
                   /\ UNCHANGED <<cur, rets>>
              ELSE /\ pc' = Ended(r.out)
                   /\ to_insert' = <<>>
                   /\ cur' = 0
                   /\ rets' = Record(rets, cur, IF r.out = "ok" THEN "Ok" ELSE r.out)
    /\ UNCHANGED <<threshold, args>>

\* the put of line 114 fails: nothing is written
PutItemFault(item, geo) ==
    /\ CanCall(item)
    /\ args' = Record(args, item, geo)
    /\ rets' = Record(rets, item, "Heed")
    /\ pc' = Ended("Heed")
    /\ db' = db
    /\ UNCHANGED <<threshold, to_insert, cur>>

\* a store read or write of explode_level_zero_geo (lines 305, 309) fails
\* after k inner-shape cells were written
ExplodeFault(item, geo, k) ==
    LET x == ExplodeLevelZeroGeo(item, geo)
    IN  /\ CanCall(item)
            /\ k < Len(x.writes)
            /\ db' = Propagate(InsertAll(PutItem(db, item, geo), SubSeq(x.writes, 1, k), item),
                            item)
        /\ args' = Record(args, item, geo)
        /\ rets' = Record(rets, item, "Heed")
        /\ pc' = Ended("Heed")
        /\ UNCHANGED <<threshold, to_insert, cur>>

\* the bitmap read or write of the iteration (lines 129, 133, 138, 142)
\* fails: the iteration writes nothing and add_item returns the error
StepFaultBeforeWrite ==
    /\ pc = "loop"
    /\ to_insert # <<>>
    /\ pc' = Ended("Heed")
    /\ to_insert' = <<>>
    /\ cur' = 0
    /\ rets' = Record(rets, cur, "Heed")
    /\ db' = Propagate(db, cur)
    /\ UNCHANGED <<threshold, args>>

\* the iteration wrote its bitmap and then a tiling (lines 159, 221, 241)
\* or an Item read (line 186) fails
StepFaultAfterWrite(kind) ==
    /\ pc = "loop"
    /\ to_insert # <<>>
    /\ FallibleAfterWrite(db, Head(to_insert), threshold)
    /\ db' = Propagate(InsertInto(db, CellKey(Head(to_insert).cell),
                                   Head(to_insert).item),
                        cur)
    /\ pc' = Ended(kind)
    /\ to_insert' = <<>>
    /\ cur' = 0
    /\ rets' = Record(rets, cur, kind)
    /\ UNCHANGED <<threshold, args>>

Next ==
    \/ \E item \in ItemIds, geo \in Geometries : AddItem(item, geo)
    \/ Step
    \/ \E item \in ItemIds, geo \in Geometries : PutItemFault(item, geo)
    \/ \E item \in ItemIds, geo \in Geometries, k \in 0 .. 2 : ExplodeFault(item, geo, k)
    \/ StepFaultBeforeWrite
    \/ \E kind \in {"Heed", "InvalidGeometry"} : StepFaultAfterWrite(kind)

Spec == Init /\ [][Next]_vars

\* the behaviours in which no store operation fails: what readers see of a
\* database whose insertions were committed
NextOk ==
    \/ \E item \in ItemIds, geo \in Geometries : AddItem(item, geo)
    \/ Step

SpecOk == Init /\ [][NextOk]_vars

\* a short menu for the behaviours checked to their end: items that crowd
\* the same cells at every resolution, and the two failing kinds
LiveGeometries ==
    { Point(6), MultiPoint(<<3, 4>>), Polygon(4 .. 9),
      Polygon(7 .. (NAtoms - 1)), Polygon({}), Other("Line") }

NextLive ==
    \/ \E item \in ItemIds, geo \in LiveGeometries : AddItem(item, geo)
    \/ Step
    \/ \E item \in ItemIds, geo \in LiveGeometries : PutItemFault(item, geo)
    \/ \E item \in ItemIds, geo \in LiveGeometries, k \in 0 .. 2 : ExplodeFault(item, geo, k)
    \/ StepFaultBeforeWrite
    \/ \E kind \in {"Heed", "InvalidGeometry"} : StepFaultAfterWrite(kind)

\* add_item is straight-line code: once in its while loop (lines 118-258) it
\* keeps taking iterations until the queue is empty or an error returns
SpecLive == Init /\ [][NextLive]_vars /\ WF_vars(Step)

\* Writer::new (lines 45-47): the threshold of a new Writer is the default
WriterNew ==
    /\ db = <<>>
    /\ threshold = DefaultThreshold
    /\ pc = "idle"
    /\ to_insert = <<>>
    /\ cur = 0
    /\ args = <<>>
    /\ rets = <<>>

\* line 41, `pub threshold: u64`: the owner of the Writer assigns the field,
\* between two calls (a call borrows the Writer)
SetThreshold(t) ==
    /\ pc = "idle"
    /\ t # threshold
    /\ threshold' = t
    /\ UNCHANGED <<db, pc, to_insert, cur, args, rets>>

NextTuned ==
    \/ Next
    \/ \E t \in Thresholds : SetThreshold(t)

\* the behaviours of a Writer whose owner uses the public field
SpecTuned == WriterNew /\ [][NextTuned]_vars

----------------------------------------------------------------------------
(* Vocabulary of the properties *)

\* query polygons: every run of consecutive atoms
Queries == {lo .. hi : lo \in Atoms, hi \in Atoms} \ {{}}

\* "g intersects Q" / "Q contains a constituent point of g", of the geometry
\* itself, independent of the index
Extent(g) ==
    CASE g.kind = "Point" -> {g.at}
      [] g.kind = "MultiPoint" -> Range(g.points)
      [] g.kind = "Polygon" -> g.area
      [] g.kind = "MultiPolygon" -> UNION Range(g.polys)
      [] OTHER -> {}
Intersects(g, Q) == Extent(g) \cap Q # {}

Called == DOMAIN args
\* every add_item call made so far returned Ok(()), none is in progress
Settled == pc = "idle"
Query(Q) == InShape(db, Q, threshold)
CellRecords == {k \in DOMAIN db : k[1] = "Cell"}
InnerRecords == {k \in DOMAIN db : k[1] = "InnerShape"}
Visited(Q) == {Query(Q).events[n][2] : n \in 1 .. Len(Query(Q).events)}
Refined == \E k \in CellRecords : Resolution(k[2]) >= 1
PointsOnly == \A i \in Called : args[i].kind \in {"Point", "MultiPoint"}
Errors == {"Heed", "InvalidGeometry", "InvalidLatLng"}

----------------------------------------------------------------------------
(* Claims *)

\* C1 (completeness): once every add_item has returned Ok, every inserted
\* (id, g) is in in_shape(Q) for every query polygon Q that g intersects.
C1_Completeness ==
    Settled =>
        \A i \in Called, Q \in Queries :
            Intersects(args[i], Q) => i \in Query(Q).ret

\* C2 (soundness): once every add_item has returned Ok, every id returned
\* by in_shape(Q) has a stored geometry that intersects Q, the ids taken
\* from a cell contained in Q without a per-item test included.
C2_Soundness ==
    Settled =>
        \A Q \in Queries : \A i \in Query(Q).ret :
            Has(db, ItemKey(i)) /\ Intersects(db[ItemKey(i)], Q)

\* C2 witness: an id is returned from a refined index through a cell that
\* the query contains, while another stored item is not returned.
C2_Witness ==
    /\ Settled /\ Refined
    /\ \E Q \in Queries : \E n \in 1 .. Len(Query(Q).events) :
          /\ Query(Q).events[n][1] = "Returned"
          /\ db[CellKey(Query(Q).events[n][2])] # {}
          /\ Query(Q).ret # Called

\* C3: for every cell in_shape dequeues, the ids of InnerShape(cell) are in
\* the result, whether or not Cell(cell) exists.
C3_InnerShapeAccepted ==
    Settled =>
        \A Q \in Queries : \A c \in Visited(Q) :
            Bitmap(db, InnerKey(c)) \subseteq Query(Q).ret

C5_PointCompleteness ==
    (Settled /\ PointsOnly) =>
        \A i \in Called, Q \in Queries :
            Intersects(args[i], Q) => i \in Query(Q).ret

\* C5 witness: a MultiPoint with far-apart constituents sits in a cell that
\* was split, and a query that has to deep-dive returns it.
C5_Witness ==
    /\ Settled /\ PointsOnly /\ Refined
    /\ \E i \in Called, Q \in Queries :
          /\ args[i] = MultiPoint(<<0, NAtoms - 1>>)
          /\ <<"DeepDive", ToCell(0, 0)>> \in Range(Query(Q).events)
          /\ i \in Query(Q).ret

\* C6: add_item with a Line, LineString or MultiLineString returns a
\* LineUnsupported error and changes no record (a store fault on the first
\* put aside).
C6_LineUnsupported ==
    \A i \in Called :
        (args[i].kind \in LineKinds /\ rets[i] # "Heed") =>
            /\ rets[i] = "LineUnsupported"
            /\ ~Has(db, ItemKey(i))

\* C7: add_item with a Rect, Triangle or GeometryCollection returns an
\* UnsupportedGeometry error value.
C7_UnsupportedGeometry ==
    \A i \in Called :
        (args[i].kind \in TodoKinds /\ rets[i] # "Heed")
            => rets[i] = "UnsupportedGeometry"

\* C8: add_item with a Point or MultiPoint that has a coordinate outside the
\* latitude/longitude domain returns an InvalidLatLng error value.
C8_InvalidLatLng ==
    \A i \in Called :
        (/\ args[i].kind \in {"Point", "MultiPoint"}
         /\ \E a \in Extent(args[i]) : ~ValidLatLng(a)
         /\ rets[i] # "Heed")
            => rets[i] = "InvalidLatLng"

\* the records of d are all in d2, every bitmap with at least its ids
Keeps(d, d2) ==
    \A k \in DOMAIN d :
        /\ k \in DOMAIN d2
        /\ IF k[1] = "Item" THEN d2[k] = d[k] ELSE d[k] \subseteq d2[k]

\* the step ends an add_item call with an error raised after the call's
\* first write: in the loop, or in the level-zero decomposition
FailsAfterWrite(i) ==
    /\ pc' = "failed"
    /\ i \in DOMAIN rets' /\ rets'[i] \in Errors
    /\ \/ pc = "loop" /\ i = cur
       \/ pc = "idle" /\ i \notin Called /\ db' # db

\* C9: when add_item returns an error raised after its first write, the Item
\* record of the id and every record and bitmap member written before the
\* failure are still in the write transaction.
C9_NothingUndone ==
    [][\A i \in ItemIds :
          FailsAfterWrite(i) =>
              /\ Has(db', ItemKey(i)) /\ db'[ItemKey(i)] = args'[i]
              /\ Keeps(db, db')]_vars

\* C9 witness: a call failed in its loop and left its Item record and a
\* Cell bitmap holding its id.
C9_Witness ==
    /\ pc = "failed"
    /\ \E i \in Called :
          /\ rets[i] \in Errors
          /\ Has(db, ItemKey(i))
          /\ \E k \in CellRecords : i \in db[k]

\* the geometry kinds the Item reads of lines 188-253 and 447-488 handle
IndexedKinds == {"Point", "MultiPoint", "Polygon", "MultiPolygon"}

\* C10 (I1): in every reachable state, mid-call and failed ones included,
\* every id in a Cell or InnerShape bitmap has an Item record (of a kind the
\* readers handle), so neither the Item read of add_item's split step nor
\* that of in_shape's double-check step finds a missing record; no add_item
\* of a polygon ends in a panic.
C10_I1 ==
    /\ \A k \in CellRecords \cup InnerRecords : \A i \in db[k] :
          Has(db, ItemKey(i)) /\ db[ItemKey(i)].kind \in IndexedKinds
    /\ \A i \in Called :
          rets[i] = "panic" => args[i].kind \notin {"Polygon", "MultiPolygon"}

\* C10 witness: the split step of a running add_item has re-enqueued another
\* item, whose bitmaps it is about to write.
C10_Witness ==
    /\ pc = "loop"
    /\ \E n \in 1 .. Len(to_insert) : to_insert[n].item # cur
    /\ InnerRecords # {}

----------------------------------------------------------------------------
(* Claims C11..C20 *)

\* "g contains S entirely" of a stored geometry as a whole: the union of its
\* polygons covers S; points contain no polygon
ContainsEntirely(g, S) ==
    g.kind \in {"Polygon", "MultiPolygon"} /\ S \subseteq Extent(g)

\* the constituents of a geometry as add_item explodes it (lines 268-331)
Parts(g) ==
    CASE g.kind = "Point" -> {{g.at}}
      [] g.kind = "MultiPoint" -> {{g.points[n]} : n \in 1 .. Len(g.points)}
      [] g.kind = "Polygon" -> {g.area}
      [] g.kind = "MultiPolygon" -> Range(g.polys)
      [] OTHER -> {}

Stored(i) == db[ItemKey(i)]

\* C11 (I2), as claimed: once every add_item has returned Ok, for every cell
\* C and every id i in Cell(C), the stored geometry of i intersects C and
\* does not contain C entirely.
C11_I2 ==
    Settled =>
        \A k \in CellRecords : \A i \in db[k] :
            /\ Intersects(Stored(i), Dissolve(k[2]))
            /\ ~ContainsEntirely(Stored(i), Dissolve(k[2]))

\* C11, amended: once every add_item has returned Ok, for every cell C and
\* every id i in Cell(C), some constituent of the stored geometry of i (its
\* point, one of its points, its polygon, one of its polygons) intersects C
\* and, when a polygon, does not contain C entirely.
C11_I2_PerConstituent ==
    Settled =>
        \A k \in CellRecords : \A i \in db[k] :
            \E P \in Parts(Stored(i)) :
                /\ P \cap Dissolve(k[2]) # {}
                /\ Stored(i).kind \in {"Polygon", "MultiPolygon"}
                      => ~(Dissolve(k[2]) \subseteq P)

\* C11 witness: a polygon item sits in the Cell set of a refined cell, and
\* a MultiPolygon sits in the Cell set of a cell that one of its polygons
\* contains (it is in the cell's InnerShape set as well).
C11_Witness ==
    /\ Settled
    /\ \E k \in CellRecords : \E i \in db[k] :
          Resolution(k[2]) >= 1 /\ Stored(i).kind = "Polygon"
    /\ \E k \in CellRecords : \E i \in db[k] :
          /\ ContainsEntirely(Stored(i), Dissolve(k[2]))
          /\ i \in Bitmap(db, InnerKey(k[2]))

\* C12 (P5/I3): once every add_item has returned Ok, for every cell C and
\* every id in InnerShape(C), the polygon of C lies entirely in the stored
\* geometry of id.
C12_InnerShapeConsistency ==
    Settled =>
        \A k \in InnerRecords : \A i \in db[k] :
            Has(db, ItemKey(i)) /\ ContainsEntirely(Stored(i), Dissolve(k[2]))

\* C12 witness: inner-shape cells written by the level-zero decomposition
\* and by the refinement loop both exist.
C12_Witness ==
    /\ Settled
    /\ \E k \in InnerRecords : Resolution(k[2]) = 0 /\ db[k] # {}
    /\ \E k \in InnerRecords : Resolution(k[2]) >= 1 /\ db[k] # {}

\* the cells of the grid, and "F is a finer cell lying under C"
AllCells == {ToCell(a, r) : a \in Atoms, r \in Resolutions}
Under(F, C) ==
    Resolution(F) > Resolution(C) /\ Dissolve(F) \subseteq Dissolve(C)
Holds(c) == Bitmap(db, CellKey(c)) \cup Bitmap(db, InnerKey(c))

\* C13 (I4): once every add_item has returned Ok, a cell with no id in its
\* Cell set and none in its InnerShape set has no finer cell under it that
\* holds an id.
C13_I4 ==
    Settled =>
        \A C \in AllCells :
            Holds(C) = {} => \A F \in AllCells : Under(F, C) => Holds(F) = {}

\* the cells one resolution finer that lie under C
Children(C) == {F \in AllCells : Under(F, C) /\ Resolution(F) = Resolution(C) + 1}

\* C14 (P4): once every add_item has returned Ok, a cell C with a finer
\* resolution, one of whose children holds an id that is also in Cell(C),
\* has at least T ids in Cell(C).
C14_P4 ==
    Settled =>
        \A C \in AllCells :
            (/\ HasSucc(Resolution(C))
             /\ \E F \in Children(C) : Holds(F) \cap Bitmap(db, CellKey(C)) # {})
            => Cardinality(Bitmap(db, CellKey(C))) >= threshold

\* the points of a Point or MultiPoint geometry
PointsOf(g) ==
    CASE g.kind = "Point" -> {g.at}
      [] g.kind = "MultiPoint" -> Range(g.points)
      [] OTHER -> {}

\* C15: in a database of Point and MultiPoint items only, once every
\* add_item has returned Ok, every id of a Cell record at resolution r >= 1
\* has a point in that cell whose cell at resolution r-1 (the parent) holds
\* at least T ids in its Cell set.
C15_PointRefinement ==
    (Settled /\ PointsOnly) =>
        \A k \in CellRecords :
            Resolution(k[2]) >= 1 =>
                /\ db[k] # {}
                /\ \A i \in db[k] :
                      \E a \in PointsOf(Stored(i)) \cap Dissolve(k[2]) :
                          Cardinality(Bitmap(db, CellKey(ToCell(a, Resolution(k[2]) - 1))))
                              >= threshold

\* C15 witness: points and a multipoint were refined down to the finest
\* resolution
C15_Witness ==
    /\ Settled /\ PointsOnly
    /\ \E i \in Called : args[i].kind = "MultiPoint"
    /\ \E k \in CellRecords : Resolution(k[2]) = MaxRes /\ MaxRes >= 2

\* C16 (I6): add_item neither writes a record nor enqueues an entry for a
\* cell finer than the maximum resolution; an entry processed at the maximum
\* resolution enqueues nothing, however many ids the cell holds; in_shape
\* visits no cell finer than the maximum resolution, and a maximum-resolution
\* cell that the query cuts is a double-check bucket, never a deep dive.
C16_I6 ==
    /\ \A k \in CellRecords \cup InnerRecords : Resolution(k[2]) <= MaxRes
    /\ \A n \in 1 .. Len(to_insert) : Resolution(to_insert[n].cell) <= MaxRes
    /\ (pc = "loop" /\ to_insert # <<>> /\ Resolution(Head(to_insert).cell) = MaxRes)
          => Process(db, Head(to_insert), threshold).pushed = <<>>
    /\ Settled =>
          \A Q \in Queries :
              LET ev == Query(Q).events
              IN  \A n \in 1 .. Len(ev) :
                      /\ Resolution(ev[n][2]) <= MaxRes
                      /\ Resolution(ev[n][2]) = MaxRes => ev[n][1] # "DeepDive"
                      /\ (/\ Resolution(ev[n][2]) = MaxRes
                          /\ Has(db, CellKey(ev[n][2]))
                          /\ Dissolve(ev[n][2]) \cap Q # {}
                          /\ ~(Dissolve(ev[n][2]) \subseteq Q))
                         => ev[n][1] = "RequireDoubleCheck"

\* C16 witness: a maximum-resolution cell holds more ids than the threshold
\* and a query that cuts it double-checks it.
C16_Witness ==
    /\ Settled
    /\ \E k \in CellRecords :
          /\ Resolution(k[2]) = MaxRes
          /\ Cardinality(db[k]) > threshold
          /\ \E Q \in Queries : <<"RequireDoubleCheck", k[2]>> \in Range(Query(Q).events)

\* every query polygon paired with the id set in_shape returns for it
Returns == {<<Q, Query(Q).ret>> : Q \in Queries}

\* C17 (query monotonicity): once every add_item has returned Ok, for query
\* polygons Q' and Q with Q' contained in Q, in_shape(Q') is a subset of
\* in_shape(Q).
C17_Monotone ==
    Settled =>
        LET answers == Returns
        IN  \A x \in answers, y \in answers :
                x[1] \subseteq y[1] => x[2] \subseteq y[2]


\* C18: in_shape on an unchanged store returns the same id set for the same
\* polygon: between two states with the same records, every query polygon
\* has the same answer.  (The inspector is handed the events and gives
\* nothing back; in_shape has no write.)
C18_SameAnswer ==
    [][(db' = db /\ pc = "idle" /\ pc' = "idle") =>
          \A Q \in Queries :
              InShape(db', Q, threshold').ret = InShape(db, Q, threshold).ret]_vars

\* C19: the threshold is the default in a new Writer and, once add_item has
\* been called, never differs from the one the earlier calls ran with.
C19_ThresholdFixed ==
    [][Called # {} => threshold' = threshold]_vars

RECURSIVE SumOver(_, _)
SumOver(m, D) ==
    IF D = {} THEN 0 ELSE LET x == CHOOSE y \in D : TRUE IN m[x] + SumOver(m, D \ {x})

\* C20: in every state, stats reports as total_items the number of Item
\* records, as total_cells the number of Cell records (InnerShape records
\* left out), and in cells_by_resolution, for exactly the resolutions that
\* have a Cell record, the number (>= 1) of Cell records of that resolution;
\* the counts sum to total_cells.
C20_Stats ==
    LET s == Stats(db)
        by == s.cells_by_resolution
    IN  /\ s.total_items = Cardinality({k \in DOMAIN db : k[1] = "Item"})
        /\ s.total_cells = Cardinality(CellRecords)
        /\ DOMAIN by = {Resolution(k[2]) : k \in CellRecords}
        /\ \A r \in DOMAIN by :
              by[r] >= 1 /\ by[r] = Cardinality({k \in CellRecords : Resolution(k[2]) = r})
        /\ SumOver(by, DOMAIN by) = s.total_cells

\* C20 witness: Cell records at three resolutions, two of them at one
\* resolution, beside InnerShape records and more than one item.
C20_Witness ==
    LET s == Stats(db)
    IN  /\ Settled
        /\ InnerRecords # {}
        /\ s.total_items >= 2
        /\ DOMAIN s.cells_by_resolution = Resolutions
        /\ \E r \in Resolutions : s.cells_by_resolution[r] >= 2

----------------------------------------------------------------------------
(* Claims C21..C30 *)

\* the three namespaces of the one ordered map (keys::KeyVariant)
KeyVariants == {"Item", "Cell", "InnerShape"}

\* mutant: the two bitmap namespaces share one tag byte
TagByte_Shared(variant) == IF variant = "Item" THEN 0 ELSE 1

\* the leading byte of a key: one fixed value per namespace
TagByte(variant) ==
    CASE variant = "Item" -> 0
      [] variant = "Cell" -> 1
      [] variant = "InnerShape" -> 2

\* KeyCodec::bytes_encode: the tag byte, then the item id or the cell id
KeyEncode(k) == <<TagByte(k[1]), k[2]>>

\* KeyCodec::bytes_decode: the variant is read off the leading byte
KeyDecode(b) ==
    CASE b[1] = 0 -> <<"Item", b[2]>>
      [] b[1] = 1 -> <<"Cell", b[2]>>
      [] OTHER -> <<"InnerShape", b[2]>>

\* prefix_iter(rtxn, &variant) under KeyPrefixVariantCodec, then the closure
\* of lines 59-63, 77-83, 104-108: every record whose key bytes start with
\* the variant's tag, decoded; a key of another variant hits unreachable!()
PrefixIter(d, variant) ==
    { LET key == KeyDecode(KeyEncode(k))
      IN  IF key[1] = variant THEN <<key[2], d[k]>> ELSE <<"unreachable">>
      : k \in {x \in DOMAIN d : KeyEncode(x)[1] = TagByte(variant)} }

\* inner_shape_cells, lines 68-85: the cells under the InnerShape prefix
InnerShapeCells(d) == SortedSeq({y[1] : y \in PrefixIter(d, "InnerShape")})

NextResCells(C) == {F \in AllCells : Resolution(F) = Resolution(C) + 1}

\* C22 (I5): once every add_item has returned Ok, for every cell C below the
\* maximum resolution whose Cell set holds at least T ids, every id of
\* Cell(C) is in the Cell or InnerShape set of a cell of the next finer
\* resolution: the ids that were there when C reached T, and the later ones.
C22_I5 ==
    Settled =>
        \A k \in CellRecords :
            (HasSucc(Resolution(k[2])) /\ Cardinality(db[k]) >= threshold) =>
                \A i \in db[k] : \E F \in NextResCells(k[2]) : i \in Holds(F)

\* C22 witness: a cell below the maximum resolution holds more ids than T
\* (one came after the split), among them a point and a polygon.
C22_Witness ==
    /\ Settled
    /\ \E k \in CellRecords :
          /\ HasSucc(Resolution(k[2]))
          /\ Cardinality(db[k]) > threshold
          /\ \E i, j \in db[k] :
                Stored(i).kind = "Point" /\ Stored(j).kind \in {"Polygon", "MultiPolygon"}

\* what the loop is about to do with the entry at the head of the queue
InLoop == pc = "loop" /\ to_insert # <<>>
Iteration == Process(db, Head(to_insert), threshold)
\* the iteration re-enqueues an occupant other than the entry's own id
SplitRuns ==
    \E n \in 1 .. Len(Iteration.pushed) :
        Iteration.pushed[n].item # Head(to_insert).item
\* the iteration's insertion raises |Cell(cell)| from below T to T
Crosses ==
    LET key == CellKey(Head(to_insert).cell)
    IN  /\ Cardinality(Bitmap(db, key)) < threshold
        /\ Cardinality(Bitmap(Iteration.db, key)) >= threshold
        /\ Head(to_insert).item \notin Bitmap(db, key)
\* a Cell set that holds T ids holds T ids for ever
StaysFull ==
    \A k \in CellRecords :
        Cardinality(db[k]) >= threshold =>
            k \in DOMAIN db' /\ Cardinality(db'[k]) >= threshold'

\* C23 (split once), as claimed: an iteration of add_item's loop re-enqueues
\* the other occupants of its cell if and only if its insertion raises
\* |Cell(cell)| from below T to T, and a Cell set never falls below T again,
\* so the split runs exactly once for every cell that reaches T.
C23_SplitOnce ==
    [][(InLoop => (SplitRuns <=> Crosses)) /\ StaysFull]_vars

\* C23, amended: the same for the cells below the maximum resolution; at the
\* maximum resolution no iteration re-enqueues anything.
C23_SplitOnce_BelowMax ==
    [][/\ InLoop =>
            (SplitRuns <=> (Crosses /\ HasSucc(Resolution(Head(to_insert).cell))))
       /\ StaysFull]_vars

\* C23 witness: the loop is about to split a cell at a resolution >= 1, while
\* a coarser cell holds more ids than T (ids that came after its own split).
C23_Witness ==
    /\ InLoop /\ SplitRuns /\ Crosses
    /\ Resolution(Head(to_insert).cell) >= 1
    /\ \E k \in CellRecords :
          /\ Resolution(k[2]) < Resolution(Head(to_insert).cell)
          /\ Cardinality(db[k]) > threshold

\* the entry at the head of the queue carries a polygon that contains the
\* polygon of the entry's cell
HeadContainsCell ==
    /\ Head(to_insert).shape.kind = "Polygon"
    /\ Dissolve(Head(to_insert).cell) \subseteq Head(to_insert).shape.area

\* C24 (inner-shape short-circuit): when an iteration of add_item's loop that
\* does not fail on the store processes an entry (id, shape, cell) whose shape
\* contains the cell's polygon, the only record that changes is
\* InnerShape(cell), which gains id; Cell(cell) and every other record stay as
\* they were, and the queue only loses the entry: nothing is enqueued.
C24_ShortCircuit ==
    [][(InLoop /\ HeadContainsCell /\ pc' # "failed") =>
          LET e == Head(to_insert)
              inner == <<"InnerShape", e.cell>>
          IN  /\ DOMAIN db' = (DOMAIN db) \cup {inner}
              /\ db'[inner] = (IF inner \in DOMAIN db THEN db[inner] ELSE {}) \cup {e.item}
              /\ \A k \in (DOMAIN db) \ {inner} : db'[k] = db[k]
              /\ to_insert' = Tail(to_insert)]_vars

\* C24 witness: at a resolution >= 1, where only the loop writes InnerShape,
\* a cell has an id in its InnerShape set that is not in its Cell set, and
\* the Cell set holds another id.
C24_Witness ==
    \E c \in AllCells :
        /\ Resolution(c) >= 1
        /\ Has(db, <<"InnerShape", c>>) /\ Has(db, <<"Cell", c>>)
        /\ \E i \in db[<<"InnerShape", c>>] : i \notin db[<<"Cell", c>>]
        /\ db[<<"Cell", c>>] # {}

\* the entries the step appended to the queue
Appended == SubSeq(to_insert', Len(to_insert), Len(to_insert'))

\* the entries the claim gives a polygon P of occupant j in a split of cell
\* C: the whole of P, in every next-resolution cell that meets the part of P
\* inside C
ExpectedOfPolygon(j, P, C) ==
    {Entry(j, Polygon(P), F) :
        F \in {G \in NextResCells(C) : Dissolve(G) \cap (P \cap Dissolve(C)) # {}}}

\* C25: when an iteration splits a cell, the entries it appends for an
\* existing Polygon occupant (for each polygon of a MultiPolygon occupant)
\* are exactly one per next-resolution cell covering the intersection of that
\* polygon with the cell's polygon, none when the intersection is empty, and
\* each carries the whole polygon as its shape, not the clipped piece.
C25_SplitCarriesWhole ==
    [][(InLoop /\ Crosses /\ HasSucc(Resolution(Head(to_insert).cell)) /\ pc' = "loop") =>
          LET e == Head(to_insert)
          IN  \A j \in Bitmap(db, CellKey(e.cell)) \ {e.item} :
                  Stored(j).kind \in {"Polygon", "MultiPolygon"} =>
                      {x \in Range(Appended) : x.item = j}
                          = UNION {ExpectedOfPolygon(j, P, e.cell) : P \in Parts(Stored(j))}]_vars

\* C25 witness: the queue holds an entry of an occupant (not the id being
\* added) whose polygon reaches outside every cell of the resolution above
\* the entry's cell, so it is no piece clipped to such a cell; and the
\* polygon has a part that the split left out of the tiling.
C25_Witness ==
    /\ pc = "loop"
    /\ \E n \in 1 .. Len(to_insert) :
          LET x == to_insert[n]
          IN  /\ x.item # cur
              /\ x.shape.kind = "Polygon"
              /\ Resolution(x.cell) >= 1
              /\ \A C \in AllCells :
                    Resolution(C) = Resolution(x.cell) - 1 =>
                        ~(x.shape.area \subseteq Dissolve(C))
              /\ \E F \in AllCells :
                    /\ Resolution(F) = Resolution(x.cell)
                    /\ Dissolve(F) \cap x.shape.area # {}
                    /\ \A m \in 1 .. Len(to_insert) :
                          ~(to_insert[m].item = x.item /\ to_insert[m].cell = F)

\* the cells of resolution 0
ZeroCells == {C \in AllCells : Resolution(C) = 0}

\* C26: once add_item(id, Polygon g) has returned Ok (and whatever was added
\* after it), every resolution-0 cell that g touches has id in exactly one
\* of its two sets, InnerShape when g contains the cell's polygon and Cell
\* otherwise, and no other resolution-0 cell holds id.
C26_LevelZero ==
    Settled =>
        \A i \in Called :
            args[i].kind = "Polygon" =>
                \A c \in ZeroCells :
                    LET inner == i \in Bitmap(db, <<"InnerShape", c>>)
                        cell == i \in Bitmap(db, <<"Cell", c>>)
                    IN  IF Dissolve(c) \cap args[i].area = {} THEN ~inner /\ ~cell
                        ELSE IF Dissolve(c) \subseteq args[i].area THEN inner /\ ~cell
                        ELSE cell /\ ~inner

\* C26 witness: a polygon contains one resolution-0 cell and cuts another,
\* another polygon leaves a resolution-0 cell untouched, and cells were
\* refined.
C26_Witness ==
    /\ Settled /\ Refined
    /\ \E i \in Called :
          /\ args[i].kind = "Polygon"
          /\ \E c \in ZeroCells : Dissolve(c) \subseteq args[i].area
          /\ \E c \in ZeroCells :
                Dissolve(c) \cap args[i].area # {} /\ ~(Dissolve(c) \subseteq args[i].area)
    /\ \E i \in Called :
          /\ args[i].kind = "Polygon"
          /\ \E c \in ZeroCells : Dissolve(c) \cap args[i].area = {}

\* the event the claim's table gives a dequeued cell c under query Q
ExpectedStep(c, Q) ==
    LET present == <<"Cell", c>> \in DOMAIN db
        contains == Dissolve(c) \subseteq Q
        intersects == Dissolve(c) \cap Q # {}
    IN  IF ~present THEN "NotPresentInDB"
        ELSE IF contains THEN "Returned"
        ELSE IF intersects /\ (\/ Cardinality(db[<<"Cell", c>>]) < threshold
                               \/ Resolution(c) = MaxRes)
        THEN "RequireDoubleCheck"
        ELSE IF intersects THEN "DeepDive"
        ELSE "OutsideOfShape"

\* C27: in one in_shape call (on a database whose add_item calls returned Ok)
\* no cell is dequeued twice, and the one event of each dequeued cell is
\* NotPresentInDB when Cell(c) is absent, else Returned when the polygon
\* contains the cell, else RequireDoubleCheck when it intersects the cell and
\* (|Cell(c)| < T or c is at the maximum resolution), else DeepDive when it
\* intersects the cell, else OutsideOfShape.
C27_OneEventPerCell ==
    Settled =>
        \A Q \in Queries :
            LET ev == Query(Q).events
            IN  /\ \A m, n \in 1 .. Len(ev) : m # n => ev[m][2] # ev[n][2]
                /\ \A n \in 1 .. Len(ev) : ev[n][1] = ExpectedStep(ev[n][2], Q)

\* C27 witness: one query dives from two cells whose tilings overlap, and
\* its events show an absent cell, a returned one and a double-checked one;
\* another query comes upon a cell outside of its polygon.
C27_Witness ==
    /\ Settled
    /\ \E Q \in Queries : <<"OutsideOfShape">> \in {<<x[1]>> : x \in Range(Query(Q).events)}
    /\ \E Q \in Queries :
          LET ev == Query(Q).events
              cellsOf(step) == {ev[n][2] : n \in {m \in 1 .. Len(ev) : ev[m][1] = step}}
          IN  /\ \E c1, c2 \in cellsOf("DeepDive") :
                    /\ c1 # c2
                    /\ Coverage(Q, Resolution(c1) + 1) \cap Coverage(Q, Resolution(c2) + 1) # {}
              /\ cellsOf("NotPresentInDB") # {}
              /\ cellsOf("Returned") # {}
              /\ cellsOf("RequireDoubleCheck") # {}

\* the next-resolution cells that touch the region S, seen from cell c
CellsTouching(S, c) == {F \in NextResCells(c) : Dissolve(F) \cap S # {}}

\* the traversal of query Q on the current records; of a traversal run, the
\* cell its n-th iteration dequeues and whether that iteration is a deep dive
Run(Q) == InShapeSteps(db, Q, threshold)
Dequeued(run, n) == Head(run[n].to_explore)
IsDive(run, n) == run[n + 1].events[n][1] = "DeepDive"
\* the region a deep dive tiled, read off the cells it marked as explored:
\* "polygon", "cell", or "both" when the two tilings give the same cells
Tiled(run, Q, n) ==
    LET marked == run[n + 1].already_explored
        before == run[n].already_explored
        c == Dequeued(run, n)
        byPolygon == marked = before \cup CellsTouching(Q, c)
        byCell == marked = before \cup CellsTouching(Dissolve(c), c)
    IN  IF byPolygon /\ byCell THEN "both"
        ELSE IF byPolygon THEN "polygon"
        ELSE IF byCell THEN "cell"
        ELSE "neither"

\* C28: in every in_shape traversal, too_large starts false, changes only in
\* a deep dive, is true after a dive iff it was true before or the dive's
\* tiling has more than 3 cells (counting the cells already explored), and so
\* never goes back to false; a dive tiles the dequeued cell's boundary when
\* too_large was true at its start and the query polygon when it was false,
\* the dive that sets the flag included.
C28_TooLarge ==
    Settled =>
        \A Q \in Queries :
            LET run == Run(Q)
            IN  /\ run[1].too_large = FALSE
                /\ \A n \in 1 .. (Len(run) - 1) :
                      LET c == Dequeued(run, n)
                          source == IF run[n].too_large THEN Dissolve(c) ELSE Q
                      IN  IF IsDive(run, n)
                          THEN /\ Tiled(run, Q, n)
                                    \in {"both", IF run[n].too_large THEN "cell" ELSE "polygon"}
                               /\ run[n + 1].too_large
                                    = (run[n].too_large \/ Cardinality(CellsTouching(source, c)) > 3)
                               /\ Range(run[n + 1].to_explore) \ Range(run[n].to_explore)
                                    = CellsTouching(source, c) \ run[n].already_explored
                          ELSE /\ run[n + 1].too_large = run[n].too_large
                               /\ run[n + 1].already_explored = run[n].already_explored

\* C28 witness: in one traversal a dive sets the flag while tiling the query
\* polygon and a later dive tiles its cell's boundary, which is not what the
\* polygon would give; in another traversal a dive leaves the flag unset.
C28_Witness ==
    /\ Settled
    /\ \E Q \in Queries :
          LET run == Run(Q)
          IN  \E m, n \in 1 .. (Len(run) - 1) :
                  /\ m < n
                  /\ IsDive(run, m) /\ ~run[m].too_large /\ run[m + 1].too_large
                  /\ Tiled(run, Q, m) = "polygon"
                  /\ IsDive(run, n) /\ Tiled(run, Q, n) = "cell"
    /\ \E Q \in Queries :
          LET run == Run(Q)
          IN  \E n \in 1 .. (Len(run) - 1) : IsDive(run, n) /\ ~run[Len(run)].too_large

\* the traversal of lines 393-440 with the deep dive always tiling the query
\* polygon: the flag is never read and never set
VisitByPolygon(d, polygon, T, st) ==
    LET cell == Head(st.to_explore)
        rest == Tail(st.to_explore)
        items == d[<<"Cell", cell>>]
    IN  IF <<"Cell", cell>> \notin DOMAIN d
        THEN [st EXCEPT !.to_explore = rest]
        ELSE IF Dissolve(cell) \subseteq polygon
        THEN [st EXCEPT !.to_explore = rest, !.ret = st.ret \cup items]
        ELSE IF Dissolve(cell) \cap polygon = {}
        THEN [st EXCEPT !.to_explore = rest]
        ELSE IF Cardinality(items) < T \/ Resolution(cell) = MaxRes
        THEN [st EXCEPT !.to_explore = rest,
                        !.double_check = st.double_check \cup items]
        ELSE LET cov == SortedSeq(Coverage(polygon, Resolution(cell) + 1))
                 new == SelectSeq(cov, LAMBDA c : c \notin st.already_explored)
             IN  [st EXCEPT !.to_explore = rest \o new,
                            !.already_explored = st.already_explored \cup Range(cov)]

RECURSIVE ExploreByPolygon(_, _, _, _)
ExploreByPolygon(d, polygon, T, st) ==
    IF st.to_explore = <<>> THEN st
    ELSE ExploreByPolygon(d, polygon, T, VisitByPolygon(d, polygon, T, st))

\* the id set that variant returns: the same seeding and the same
\* double-check pass as in_shape
ReturnedByPolygon(d, polygon, T) ==
    LET seed == SortedSeq(Coverage(polygon, 0))
        st == ExploreByPolygon(d, polygon, T,
                               Exploring(seed, Range(seed), FALSE, {}, {}, <<>>))
    IN  st.ret \cup {i \in st.double_check \ st.ret :
                        DoubleCheck(polygon, d[ItemKey(i)]) = "accept"}

\* C29: on every database whose add_item calls returned Ok and for every
\* query polygon, in_shape returns the id set that the same traversal returns
\* when every deep dive tiles the query polygon (too_large never set).
C29_TooLargeSameAnswer ==
    Settled =>
        \A Q \in Queries : Query(Q).ret = ReturnedByPolygon(db, Q, threshold)

\* C29 witness: a query sets the flag, then dives by a cell's boundary into
\* cells the polygon's tiling would not give, and returns an item that it
\* finds only below that dive.
C29_Witness ==
    /\ Settled
    /\ \E Q \in Queries :
          LET run == Run(Q)
              last == run[Len(run)]
          IN  \E n \in 1 .. (Len(run) - 1) :
                  /\ IsDive(run, n) /\ run[n].too_large /\ Tiled(run, Q, n) = "cell"
                  /\ \E i \in Query(Q).ret :
                        \A m \in 1 .. Len(last.events) :
                            (/\ last.events[m][1] \in {"Returned", "RequireDoubleCheck"}
                             /\ i \in db[<<"Cell", last.events[m][2]>>])
                            => Resolution(last.events[m][2]) > Resolution(Dequeued(run, n))

\* C30: every add_item call terminates.  Every entry an iteration appends to
\* the queue is for a cell exactly one resolution finer than the cell of the
\* entry it processed, an iteration on a maximum-resolution entry appends
\* nothing, and a call that is in its loop leaves it, also when the cells it
\* meets already hold T ids or more.
C30_Terminates ==
    /\ [][(InLoop /\ pc' = "loop") =>
            /\ Len(to_insert') >= Len(to_insert) - 1
            /\ SubSeq(to_insert', 1, Len(to_insert) - 1) = Tail(to_insert)
            /\ \A n \in Len(to_insert) .. Len(to_insert') :
                  Resolution(to_insert'[n].cell) = Resolution(Head(to_insert).cell) + 1
            /\ Resolution(Head(to_insert).cell) = MaxRes => to_insert' = Tail(to_insert)]_vars
    /\ (pc = "loop") ~> (pc # "loop")

\* C30 witness: a call is in its loop with more than one entry queued, the
\* head entry is for a cell below the maximum resolution that already holds
\* more than T ids, and a cell of the maximum resolution is over T as well.
C30_Witness ==
    /\ InLoop /\ Len(to_insert) > 1
    /\ HasSucc(Resolution(Head(to_insert).cell))
    /\ Cardinality(Bitmap(db, <<"Cell", Head(to_insert).cell>>)) > threshold
    /\ \E k \in CellRecords : Resolution(k[2]) = MaxRes /\ Cardinality(db[k]) >= threshold

----------------------------------------------------------------------------
(* Claims C31..C38 *)

\* C31: every in_shape call terminates with to_explore empty, and the
\* succ().unwrap() of the deep-dive branch never fails.  On every settled
\* database and for every query polygon, the traversal ends with an empty
\* queue; no cell is dequeued twice; every iteration removes the head and
\* leaves the rest of the queue in place; only a deep dive appends, and it
\* dives from a cell below the maximum resolution and appends cells of the
\* next resolution, none of which was explored before.
C31_InShapeTerminates ==
    Settled =>
        \A Q \in Queries :
            LET run == Run(Q)
                steps == Len(run) - 1
            IN  /\ run[Len(run)].to_explore = <<>>
                /\ \A m, n \in 1 .. steps : Dequeued(run, m) = Dequeued(run, n) => m = n
                /\ \A n \in 1 .. steps :
                      LET c == Dequeued(run, n)
                          rest == Tail(run[n].to_explore)
                          after == run[n + 1].to_explore
                          new == SubSeq(after, Len(rest) + 1, Len(after))
                      IN  /\ Len(after) >= Len(rest)
                          /\ SubSeq(after, 1, Len(rest)) = rest
                          /\ IF IsDive(run, n)
                             THEN /\ HasSucc(Resolution(c))
                                  /\ \A k \in 1 .. Len(new) :
                                        /\ Resolution(new[k]) = Resolution(c) + 1
                                        /\ new[k] \notin run[n].already_explored
                             ELSE new = <<>>

\* C31 witness: a traversal dives down to the maximum resolution and there
\* meets a cell that the query cuts and that holds at least T ids, the case
\* in which a further dive would have no resolution to go to.
C31_Witness ==
    /\ Settled
    /\ \E Q \in Queries :
          LET run == Run(Q)
              last == run[Len(run)]
          IN  \E m \in 1 .. Len(last.events) :
                  LET c == last.events[m][2]
                  IN  /\ last.events[m][1] = "RequireDoubleCheck"
                      /\ Resolution(c) = MaxRes
                      /\ Cardinality(Bitmap(db, CellKey(c))) >= threshold

\* the resolutions of the queued entries, front to back
QueueRes(q) == [n \in 1 .. Len(q) |-> Resolution(q[n].cell)]
\* the records an iteration creates or changes
Written == {k \in DOMAIN db' : k \notin DOMAIN db \/ db'[k] # db[k]}

\* C32: within one add_item call the queue is processed breadth-first.  The
\* queue of a call in its loop is in non-decreasing resolution order and
\* spans at most two consecutive resolutions; an iteration writes only
\* records of the cell it dequeued; and the entry dequeued next is never of
\* a coarser resolution, so all writes at resolution r come before any write
\* at resolution r+2.
C32_BreadthFirst ==
    [][/\ InLoop' =>
            LET res == QueueRes(to_insert')
            IN  /\ \A m, n \in 1 .. Len(res) : m < n => res[m] <= res[n]
                /\ res[Len(res)] <= res[1] + 1
       /\ InLoop =>
            /\ \A k \in Written : k[1] \in {"Cell", "InnerShape"} /\ k[2] = Head(to_insert).cell
            /\ InLoop' =>
                  Resolution(Head(to_insert').cell) >= Resolution(Head(to_insert).cell)]_vars

\* C32 witness: a call is in its loop with entries of resolutions 1 and 2
\* queued together, the coarser in front, for more than one item.
C32_Witness ==
    /\ InLoop
    /\ Resolution(Head(to_insert).cell) = 1
    /\ Resolution(to_insert[Len(to_insert)].cell) = 2
    /\ \E m, n \in 1 .. Len(to_insert) : to_insert[m].item # to_insert[n].item

\* C33: add_item only grows the index.  Every step of every call, whether it
\* goes on, returns Ok or returns an error, keeps every Item, Cell and
\* InnerShape record and leaves every Cell and InnerShape set with at least
\* the ids it had; and when an iteration re-enqueues ids for the next
\* resolution, those ids are all in the Cell set of the cell it refined.
C33_OnlyGrows ==
    [][/\ \A k \in DOMAIN db :
             /\ k \in DOMAIN db'
             /\ k[1] \in {"Cell", "InnerShape"} => db[k] \subseteq db'[k]
       /\ (InLoop /\ pc' = "loop") =>
             \A n \in 1 .. Len(Iteration.pushed) :
                 Iteration.pushed[n].item \in Bitmap(db', CellKey(Head(to_insert).cell))]_vars

\* C33 witness: a cell was refined, its ids being both in its own Cell set
\* and in a Cell set below it, an InnerShape record exists, and a call has
\* failed after writing a Cell record.
C33_Witness ==
    /\ \E k \in CellRecords :
          /\ Resolution(k[2]) = 0
          /\ Cardinality(db[k]) >= threshold
          /\ \E f \in CellRecords :
                Resolution(f[2]) = 1 /\ db[f] \cap db[k] # {} /\ Cardinality(db[f] \cap db[k]) > 1
    /\ InnerRecords # {}
    /\ \E i \in Called : rets[i] \in Errors /\ \E k \in CellRecords : i \in db[k]

\* add_item run to its end on the records d: lines 112-261 as one function
RECURSIVE Drain(_, _, _)
Drain(d, queue, T) ==
    IF queue = <<>> THEN d
    ELSE LET r == Process(d, Head(queue), T)
         IN  IF r.out = "ok" THEN Drain(r.db, PushBack(Tail(queue), r.pushed), T)
             ELSE r.db

AddItemDb(d, item, geo, T) ==
    LET x == ExplodeLevelZeroGeo(item, geo)
        d1 == InsertAll(PutItem(d, item, geo), x.writes, item)
    IN  IF x.out = "ok" THEN Drain(d1, x.queue, T) ELSE d1

\* the records after the first n calls of the history
RECURSIVE DbAfter(_)
DbAfter(n) ==
    IF n = 0 THEN <<>> ELSE AddItemDb(DbAfter(n - 1), n, args[n], threshold)

\* C34: query results are stable under later inserts.  Once a call has
\* returned Ok, every id that in_shape returned for a query polygon on the
\* records as they were before that call is returned for it on the records
\* after the call.
C34_StableUnderInserts ==
    (Settled /\ Called # {}) =>
        LET before == DbAfter(Cardinality(Called) - 1)
        IN  \A Q \in Queries : InShape(before, Q, threshold).ret \subseteq Query(Q).ret

\* the orders in which the ids of S can be inserted
RECURSIVE Orders(_)
Orders(S) ==
    IF S = {} THEN {<<>>}
    ELSE UNION {{<<i>> \o o : o \in Orders(S \ {i})} : i \in S}

\* the records after the calls of the history are made in the order o
RECURSIVE DbOfOrder(_)
DbOfOrder(o) ==
    IF o = <<>> THEN <<>>
    ELSE LET n == Len(o)
         IN  AddItemDb(DbOfOrder(SubSeq(o, 1, n - 1)), o[n], args[o[n]], threshold)

CellsOf(d) == [k \in {x \in DOMAIN d : x[1] = "Cell"} |-> d[k]]
AllPoints == \A i \in Called : args[i].kind = "Point"

\* C35: for Point items with distinct ids and a fixed T, the Cell records do
\* not depend on the order of the add_item calls: inserting the same
\* (id, point) pairs in any other order ends with the same Cell records.
C35_OrderIndependent ==
    (Settled /\ AllPoints) =>
        \A o \in Orders(Called) : CellsOf(DbOfOrder(o)) = CellsOf(db)

\* C35 witness: three points at two different places were inserted, a cell
\* was refined down to the maximum resolution, and one of the ids did not go
\* down with the others.
C35_Witness ==
    /\ Settled /\ AllPoints
    /\ Cardinality(Called) = MaxItems
    /\ \E i, j \in Called : args[i] # args[j]
    /\ \E k \in CellRecords : Resolution(k[2]) = MaxRes /\ Cardinality(db[k]) >= threshold
    /\ \E k \in CellRecords, i \in Called :
          /\ Resolution(k[2]) = 1
          /\ i \in db[k]
          /\ \A f \in CellRecords : Resolution(f[2]) = MaxRes => i \notin db[f]

\* the entries one add_item call dequeues, in order
RECURSIVE Dequeues(_, _, _)
Dequeues(d, queue, T) ==
    IF queue = <<>> THEN <<>>
    ELSE LET r == Process(d, Head(queue), T)
         IN  <<Head(queue)>> \o
             (IF r.out = "ok" THEN Dequeues(r.db, PushBack(Tail(queue), r.pushed), T)
              ELSE <<>>)

CallDequeues(d, item, geo, T) ==
    LET x == ExplodeLevelZeroGeo(item, geo)
        d1 == InsertAll(PutItem(d, item, geo), x.writes, item)
    IN  IF x.out = "ok" THEN Dequeues(d1, x.queue, T) ELSE <<>>

\* the (id, cell) pairs that are in the records d2 and were not in d
PairsWritten(d, d2) ==
    {<<i, k[2]>> : i \in ItemIds, k \in {x \in DOMAIN d2 : x[1] \in {"Cell", "InnerShape"}}}
        \cap {p \in ItemIds \X AllCells :
                 /\ p[1] \in Bitmap(d2, CellKey(p[2])) \cup Bitmap(d2, InnerKey(p[2]))
                 /\ p[1] \notin Bitmap(d, CellKey(p[2])) \cup Bitmap(d, InnerKey(p[2]))}

\* C36: within one add_item call no (item id, cell) pair is dequeued more
\* than once, and the call dequeues at most as many entries as it writes
\* distinct (id, cell) pairs.
C36_NoPairTwice ==
    (Settled /\ Called # {}) =>
        LET n == Cardinality(Called)
            before == DbAfter(n - 1)
            tr == CallDequeues(before, n, args[n], threshold)
        IN  /\ \A a, b \in 1 .. Len(tr) :
                  (tr[a].item = tr[b].item /\ tr[a].cell = tr[b].cell) => a = b
            /\ Len(tr) <= Cardinality(PairsWritten(before, db))

\* C37: an id inserted once, as a Point or as a Polygon, is never in both the
\* Cell set and the InnerShape set of the same cell, at any resolution and in
\* any reachable state, the states inside a call and after a failed call
\* included.
C37_CellOrInner ==
    \A i \in Called :
        args[i].kind \in {"Point", "Polygon"} =>
            \A c \in AllCells :
                ~(i \in Bitmap(db, CellKey(c)) /\ i \in Bitmap(db, InnerKey(c)))

\* C37 witness: below the coarsest resolution a Polygon id is in the
\* InnerShape set of one cell and in the Cell set of another, among the ids
\* of other items, and a Point id is in a Cell set of that resolution.
C37_Witness ==
    \E i, j \in Called :
        /\ args[i].kind = "Polygon" /\ args[j].kind = "Point"
        /\ \E c, f, g \in AllCells :
              /\ Resolution(c) = 1 /\ Resolution(f) = 1 /\ Resolution(g) = 1
              /\ i \in Bitmap(db, InnerKey(c))
              /\ i \in Bitmap(db, CellKey(f)) /\ Cardinality(Bitmap(db, CellKey(f))) > 1
              /\ j \in Bitmap(db, CellKey(g))

\* C38: re-adding is idempotent.  Once add_item(id, g) has returned Ok,
\* calling it again with the same id and geometry, with no other insert in
\* between, ends with every Item, Cell and InnerShape record exactly as the
\* first call left it.
C38_ReAddIdempotent ==
    (Settled /\ Called # {}) =>
        LET n == Cardinality(Called)
        IN  AddItemDb(db, n, args[n], threshold) = db
=============================================================================
